---- MODULE Spec2Model ----
(***************************************************************************)
(* Model of cf_step's Step engine (nbs/step.ipynb): batch_fit, step,      *)
(* predict, save and load over one model with a user and an item          *)
(* embedding table, an objective with an optional weight slot, an         *)
(* optimizer and a confidence function.                                    *)
(*                                                                         *)
(* The model, the objective and the optimizer are supplied by the caller; *)
(* they are instantiated here by a dot-product scorer, a (weighted)       *)
(* squared error and plain gradient descent with a step counter, over     *)
(* integers kept in -Radius..Radius, so that parameters depend on every   *)
(* update, on its weight and on the order of the updates.                 *)
(***************************************************************************)
EXTENDS Integers, Sequences, FiniteSets, TLC

\* ---------------------------------------------------------------- bounds
NumUsers == 2
NumItems == 3
Dim == 1
Radius == 2
MaxRating == 2
MaxBatches == 2
MaxEpochs == 2
MaxCalls == 2
MaxPersistCalls == 3
NumPaths == 2

\* ------------------------------------------------------- program constants
DefaultK == 10
DefaultEpochs == 1
NoneArg == -1

Users == 0 .. (NumUsers - 1)
Items == 0 .. (NumItems - 1)
Paths == 1 .. NumPaths
Components == 1 .. Dim

VARIABLES engine, disk, pre, last, budget, saved

vars == <<engine, disk, pre, last, budget, saved>>

\* ---------------------------------------------------------------- helpers
Max(a, b) == IF a >= b THEN a ELSE b
Min(a, b) == IF a <= b THEN a ELSE b

\* a parameter value, kept in -Radius .. Radius
Wrap(x) == ((x + Radius) % (2 * Radius + 1)) - Radius

RECURSIVE SumSeq(_)
SumSeq(s) == IF s = <<>> THEN 0 ELSE Head(s) + SumSeq(Tail(s))

Dot(a, b) == SumSeq([d \in Components |-> a[d] * b[d]])

ZeroTable(ids) == [x \in ids |-> [d \in Components |-> 0]]

\* the events of `s` whose op is `op`, in order
RECURSIVE EventsOf(_, _)
EventsOf(s, op) ==
    IF s = <<>> THEN <<>>
    ELSE IF Head(s).op = op THEN <<Head(s)>> \o EventsOf(Tail(s), op)
         ELSE EventsOf(Tail(s), op)

\* ------------------------------------------------------------ the engine
\* An exception: the remaining statements of the call are skipped.
Raise(e, name) == IF e.err = "" THEN [e EXCEPT !.err = name] ELSE e

\* one batch as the engine sees it: aligned sequences
Batch(users, items, rtngs, prefs) ==
    [users |-> users, items |-> items, rtngs |-> rtngs, prefs |-> prefs]

NoBatch == Batch(<<>>, <<>>, <<>>, <<>>)

\* what a call's trace records of one operation
Event(e, op) ==
    [op |-> op, pos |-> e.pos, cur |-> e.cur, has_weight |-> e.has_weight,
     weight |-> e.weight, training |-> e.training]

Log(e, op) == [e EXCEPT !.events = Append(@, Event(e, op))]

\* entry of a public call: a fresh trace, no exception pending
Begin(e) ==
    [e EXCEPT !.events = <<>>, !.err = "", !.cur = NoBatch, !.pos = <<0, 0>>]

\* mutant: the mode switch is recorded but the model stays in its mode
ModelTrain_noswitch(e) == Log(e, "train")

\* self.model.train() / self.model.eval()
ModelTrain(e) == Log([e EXCEPT !.training = TRUE], "train")
ModelEval(e) == Log([e EXCEPT !.training = FALSE], "eval")

\* features[:, c]
Width(features) == IF features = <<>> THEN 0 ELSE Len(features[1])
HasColumn(features, c) == c < Width(features)
Column(features, c) == [j \in 1 .. Len(features) |-> features[j][c + 1]]

\* self.model(users, items): the dot product of the looked-up embeddings
InRange(b) ==
    \A j \in 1 .. Len(b.users) : b.users[j] \in Users /\ b.items[j] \in Items

Preds(e, b) ==
    [j \in 1 .. Len(b.users) |->
        Dot(e.user_embeddings[b.users[j]], e.item_embeddings[b.items[j]])]

Forward(e, b) ==
    IF e.err # "" THEN e
    ELSE IF ~InRange(b) THEN Raise(e, "IndexError")
    ELSE Log([e EXCEPT !.cur = b], "forward")

\* self.conf_func(rtngs); the default is lambda x: torch.tensor(1)
ConfFunc(f, rtngs) ==
    IF f = "one" THEN <<1>> ELSE [j \in 1 .. Len(rtngs) |-> 1 + rtngs[j]]

\* mutant: the weight is injected once and then kept
SetWeight_cached(e, confs) ==
    IF e.err # "" THEN e
    ELSE IF e.has_weight /\ e.weight = <<>> THEN [e EXCEPT !.weight = confs]
    ELSE e

\* if hasattr(self.objective, 'weight'): self.objective.weight = confs
SetWeight(e, confs) ==
    IF e.err # "" THEN e
    ELSE IF e.has_weight THEN [e EXCEPT !.weight = confs] ELSE e

\* the weight the objective applies to example j (a scalar broadcasts)
WeightAt(e, j) ==
    IF ~e.has_weight \/ e.weight = <<>> THEN 1
    ELSE IF Len(e.weight) = 1 THEN e.weight[1] ELSE e.weight[j]

\* self.objective(preds, prefs): per-example weighted error terms
Objective(e) ==
    IF e.err # "" THEN e ELSE Log(e, "objective")

LossTerms(e, b) ==
    LET p == Preds(e, b)
    IN [j \in 1 .. Len(b.users) |-> WeightAt(e, j) * (p[j] - b.prefs[j])]

\* loss.backward(): gradients are added to the accumulated ones;
\* `n` is the divisor of the reduction (.mean() over n examples, or 1)
GradUser(e, b, terms, n, u, d) ==
    SumSeq([j \in 1 .. Len(b.users) |->
        IF b.users[j] = u THEN terms[j] * e.item_embeddings[b.items[j]][d]
        ELSE 0]) \div n

GradItem(e, b, terms, n, i, d) ==
    SumSeq([j \in 1 .. Len(b.users) |->
        IF b.items[j] = i THEN terms[j] * e.user_embeddings[b.users[j]][d]
        ELSE 0]) \div n

Backward(e, b, terms, n) ==
    IF e.err # "" THEN e
    ELSE Log([e EXCEPT
        !.user_grad = [u \in Users |-> [d \in Components |->
                          @[u][d] + GradUser(e, b, terms, n, u, d)]],
        !.item_grad = [i \in Items |-> [d \in Components |->
                          @[i][d] + GradItem(e, b, terms, n, i, d)]]],
        "backward")

\* self.optimizer.step(): gradient descent on both tables
OptimizerStep(e) ==
    IF e.err # "" THEN e
    ELSE Log([e EXCEPT
        !.user_embeddings = [u \in Users |-> [d \in Components |->
                                Wrap(@[u][d] - e.user_grad[u][d])]],
        !.item_embeddings = [i \in Items |-> [d \in Components |->
                                Wrap(@[i][d] - e.item_grad[i][d])]],
        !.opt_steps = @ + 1],
        "optimizer.step")

\* mutant: the gradients are not cleared
ZeroGrad_keep(e) ==
    IF e.err # "" THEN e ELSE Log(e, "zero_grad")

\* self.optimizer.zero_grad()
ZeroGrad(e) ==
    IF e.err # "" THEN e
    ELSE Log([e EXCEPT !.user_grad = ZeroTable(Users),
                       !.item_grad = ZeroTable(Items)], "zero_grad")

\* ---------------------------------------------------------------- step
StepBody(e, user, item, rating, preference) ==
    LET e1 == ModelTrain(e)
    IN IF rating = NoneArg \/ preference = NoneArg
       THEN Raise(e1, "AttributeError")
       ELSE LET b == Batch(<<user>>, <<item>>, <<rating>>, <<preference>>)
                e2 == Forward(e1, b)
                conf == ConfFunc(e.conf_func, b.rtngs)
                e3 == SetWeight(e2, conf)
                e4 == Objective(e3)
                e5 == Backward(e4, b, LossTerms(e3, b), 1)
                e6 == OptimizerStep(e5)
            IN ZeroGrad(e6)

\* ------------------------------------------------------------ batch_fit
\* a batch as the data loader yields it: (features, preferences)
RawBatch(features, preferences) ==
    [features |-> features, preferences |-> preferences]

\* mutant: the gradients of a batch are left for the next one
IterateBatch_accumulate(e, raw) ==
    IF e.err # "" THEN e
    ELSE IF ~HasColumn(raw.features, 0) \/ ~HasColumn(raw.features, 1)
            \/ ~HasColumn(raw.features, 2)
    THEN Raise(e, "IndexError")
    ELSE LET b == Batch(Column(raw.features, 0), Column(raw.features, 1),
                        Column(raw.features, 2), raw.preferences)
             e2 == Forward(e, b)
             confs == ConfFunc(e.conf_func, b.rtngs)
             e3 == SetWeight(e2, confs)
             e4 == Objective(e3)
             e5 == Backward(e4, b, LossTerms(e3, b), Len(b.users))
         IN OptimizerStep(e5)

\* the body of the inner loop, for one (features, preferences)
IterateBatch(e, raw) ==
    IF e.err # "" THEN e
    ELSE IF ~HasColumn(raw.features, 0) \/ ~HasColumn(raw.features, 1)
            \/ ~HasColumn(raw.features, 2)
    THEN Raise(e, "IndexError")
    ELSE LET b == Batch(Column(raw.features, 0), Column(raw.features, 1),
                        Column(raw.features, 2), raw.preferences)
             e2 == Forward(e, b)
             confs == ConfFunc(e.conf_func, b.rtngs)
             e3 == SetWeight(e2, confs)
             e4 == Objective(e3)
             e5 == Backward(e4, b, LossTerms(e3, b), Len(b.users))
             e6 == OptimizerStep(e5)
         IN ZeroGrad(e6)

\* mutant: the loop stops one batch early
RECURSIVE RunBatches_skiplast(_, _, _, _)
RunBatches_skiplast(e, data_loader, epoch, i) ==
    IF e.err # "" \/ i >= Len(data_loader) THEN e
    ELSE RunBatches_skiplast(
             IterateBatch([e EXCEPT !.pos = <<epoch, i>>], data_loader[i]),
             data_loader, epoch, i + 1)

\* for _, (features, preferences) in enumerate(data_loader)
RECURSIVE RunBatches(_, _, _, _)
RunBatches(e, data_loader, epoch, i) ==
    IF e.err # "" \/ i > Len(data_loader) THEN e
    ELSE RunBatches(IterateBatch([e EXCEPT !.pos = <<epoch, i>>], data_loader[i]),
                    data_loader, epoch, i + 1)

\* for epoch in range(epochs); epochs are counted from 1 here
RECURSIVE RunEpochs(_, _, _, _)
RunEpochs(e, data_loader, epochs, epoch) ==
    IF e.err # "" \/ epoch > epochs THEN e
    ELSE RunEpochs(RunBatches(e, data_loader, epoch, 1),
                   data_loader, epochs, epoch + 1)

BatchFitBody(e, data_loader, epochs) ==
    RunEpochs(ModelTrain(e), data_loader, epochs, 1)

\* -------------------------------------------------------------- predict
\* score = item_embeddings @ user_embedding.transpose(0, 1)
Score(e, user) ==
    [i \in Items |-> Dot(e.item_embeddings[i], e.user_embeddings[user])]

\* score.squeeze().argsort(): every ascending order of the item ids
\* (the order among equal scores is not defined)
RECURSIVE Ascending(_, _)
Ascending(ids, score) ==
    IF ids = {} THEN {<<>>}
    ELSE UNION {{<<i>> \o rest : rest \in Ascending(ids \ {i}, score)} :
                   i \in {x \in ids : \A y \in ids : score[x] <= score[y]}}

Argsorts(score) == Ascending(Items, score)

\* s[start:]
PySliceFrom(s, start) ==
    LET from == IF start < 0 THEN Max(Len(s) + start, 0) ELSE Min(start, Len(s))
    IN SubSeq(s, from + 1, Len(s))

\* the engine after predict, up to the choice of the returned order
PredictBody(e, user) ==
    LET e1 == ModelEval(e)
    IN IF user \notin Users THEN Raise(e1, "IndexError") ELSE Log(e1, "score")

PredictResults(e, user, k) ==
    {PySliceFrom(p, 0 - k) : p \in Argsorts(Score(e, user))}

\* ---------------------------------------------------------- save / load
\* self.model.state_dict()
StateDict(e) ==
    [user_embeddings_weight |-> e.user_embeddings,
     item_embeddings_weight |-> e.item_embeddings]

\* mutant: only the user table is restored
LoadStateDict_useronly(e, state) ==
    Log([e EXCEPT !.user_embeddings = state.user_embeddings_weight],
        "load_state_dict")

\* self.model.load_state_dict(state)
LoadStateDict(e, state) ==
    Log([e EXCEPT !.user_embeddings = state.user_embeddings_weight,
                  !.item_embeddings = state.item_embeddings_weight],
        "load_state_dict")

\* torch.load(path), then load_state_dict
LoadBody(e, file) ==
    IF file = <<>> THEN Raise(e, "FileNotFoundError")
    ELSE LoadStateDict(e, file[1])

\* ---------------------------------------------------------------- inputs
\* the observations of the stream, in arrival order
Obs(n) ==
    [user |-> n % NumUsers, item |-> (n + 1) % NumItems,
     rating |-> 1 + (n % MaxRating), preference |-> n % 2]

Row(o) == <<o.user, o.item, o.rating>>

Single(n) == RawBatch(<<Row(Obs(n))>>, <<Obs(n).preference>>)

Double == RawBatch(<<Row(Obs(1)), Row(Obs(2))>>,
                   <<Obs(1).preference, Obs(2).preference>>)

\* a batch with 2 columns, and one with 4
Bad2 == RawBatch(<<<<Obs(1).user, Obs(1).item>>>>, <<Obs(1).preference>>)
Bad4 == RawBatch(<<Row(Obs(2)) \o <<7>>>>, <<Obs(2).preference>>)

Singles(n) == [j \in 1 .. n |-> Single(j)]

Loaders ==
    {Singles(n) : n \in 0 .. MaxBatches}
      \cup {Singles(n) \o <<x>> : n \in 0 .. (MaxBatches - 1),
                                   x \in {Double, Bad2, Bad4}}

StepInputs ==
    {Obs(n) : n \in 1 .. MaxBatches}
      \cup {[Obs(1) EXCEPT !.user = NumUsers],
            [Obs(1) EXCEPT !.item = NumItems],
            [Obs(1) EXCEPT !.rating = NoneArg, !.preference = NoneArg]}

\* the trained parameters: both embedding tables
Params(e) == <<e.user_embeddings, e.item_embeddings>>

\* ------------------------------------------------------------------ Init
NoCall ==
    [op |-> "init", ok |-> TRUE, user |-> 0, item |-> 0, rating |-> 0,
     preference |-> 0, data_loader |-> <<>>, epochs |-> 0, k |-> 0,
     path |-> 0, ret |-> <<>>]

InitEngine(has_weight, conf_func) ==
    [user_embeddings |-> [u \in Users |-> [d \in Components |-> Wrap(u + d)]],
     item_embeddings |-> [i \in Items |-> [d \in Components |-> Wrap(i + d - 2)]],
     user_grad |-> ZeroTable(Users),
     item_grad |-> ZeroTable(Items),
     training |-> TRUE,
     opt_steps |-> 0,
     has_weight |-> has_weight,
     weight |-> <<>>,
     conf_func |-> conf_func,
     device |-> "cpu",
     events |-> <<>>, err |-> "", cur |-> NoBatch, pos |-> <<0, 0>>]

InitWith(calls) ==
    /\ \E hw \in BOOLEAN, cf \in {"one", "linear"} : engine = InitEngine(hw, cf)
    /\ disk = [p \in Paths |-> <<>>]
    /\ pre = Begin(engine)
    /\ last = NoCall
    /\ budget = calls
    /\ saved = [p \in Paths |-> <<>>]

Init == InitWith(MaxCalls)

\* --------------------------------------------------------------- actions
Return(e, call) ==
    /\ budget > 0
    /\ budget' = budget - 1
    /\ pre' = Begin(engine)
    /\ engine' = e
    /\ last' = [call EXCEPT !.ok = (e.err = "")]

StepCall(user, item, rating, preference) ==
    /\ Return(StepBody(Begin(engine), user, item, rating, preference),
              [NoCall EXCEPT !.op = "step", !.user = user, !.item = item,
                             !.rating = rating, !.preference = preference])
    /\ UNCHANGED <<disk, saved>>

BatchFitCall(data_loader, epochs) ==
    /\ Return(BatchFitBody(Begin(engine), data_loader, epochs),
              [NoCall EXCEPT !.op = "batch_fit", !.data_loader = data_loader,
                             !.epochs = epochs])
    /\ UNCHANGED <<disk, saved>>

PredictCall(user, k) ==
    LET e == PredictBody(Begin(engine), user)
    IN /\ \E r \in (IF e.err = "" THEN PredictResults(e, user, k) ELSE {<<>>}) :
             Return(e, [NoCall EXCEPT !.op = "predict", !.user = user,
                                      !.k = k, !.ret = r])
       /\ UNCHANGED <<disk, saved>>

SaveCall(path) ==
    /\ Return(Begin(engine), [NoCall EXCEPT !.op = "save", !.path = path])
    /\ disk' = [disk EXCEPT ![path] = <<StateDict(engine)>>]
    /\ saved' = [saved EXCEPT ![path] = <<Params(engine)>>]

LoadCall(path) ==
    /\ Return(LoadBody(Begin(engine), disk[path]),
              [NoCall EXCEPT !.op = "load", !.path = path])
    /\ UNCHANGED <<disk, saved>>

EpochChoices == {0, DefaultEpochs, MaxEpochs}

\* Every operation; predict is called with its default k.
Next ==
    \/ \E o \in StepInputs : StepCall(o.user, o.item, o.rating, o.preference)
    \/ \E dl \in Loaders, epochs \in EpochChoices : BatchFitCall(dl, epochs)
    \/ \E user \in 0 .. NumUsers : PredictCall(user, DefaultK)
    \/ \E path \in Paths : SaveCall(path)
    \/ \E path \in Paths : LoadCall(path)

Spec == Init /\ [][Next]_vars

\* predict for every user id and every k, between training calls.
NextPredict ==
    \/ \E user \in 0 .. NumUsers, k \in 0 .. (NumItems + 1) : PredictCall(user, k)
    \/ \E n \in 1 .. MaxBatches :
          StepCall(Obs(n).user, Obs(n).item, Obs(n).rating, Obs(n).preference)
    \/ BatchFitCall(Singles(MaxBatches), DefaultEpochs)

SpecPredict == Init /\ [][NextPredict]_vars

\* Longer runs of save, training and load, over fewer inputs.
InitPersist == InitWith(MaxPersistCalls)

NextPersist ==
    \/ \E path \in Paths : SaveCall(path)
    \/ \E path \in Paths : LoadCall(path)
    \/ \E n \in 1 .. MaxBatches :
          StepCall(Obs(n).user, Obs(n).item, Obs(n).rating, Obs(n).preference)
    \/ \E n \in 1 .. MaxBatches : BatchFitCall(Singles(n), DefaultEpochs)

SpecPersist == InitPersist /\ [][NextPersist]_vars

\* ------------------------------------------------------ views of a call
\* the batch of every optimizer update of the last call, in order
Updates(e) ==
    LET u == EventsOf(e.events, "optimizer.step")
    IN [j \in 1 .. Len(u) |-> u[j].cur]

\* the operations of the last call, in order
Ops(e) == [j \in 1 .. Len(e.events) |-> e.events[j].op]

\* a yielded batch as the engine reads it (columns 0, 1 and 2)
EngineBatch(raw) ==
    Batch(Column(raw.features, 0), Column(raw.features, 1),
          Column(raw.features, 2), raw.preferences)

RECURSIVE Repeat(_, _)
Repeat(s, n) == IF n = 0 THEN <<>> ELSE s \o Repeat(s, n - 1)

\* the state a call must leave alone when it is not a training call
Trained(e) == <<e.user_embeddings, e.item_embeddings, e.opt_steps,
                e.user_grad, e.item_grad>>

Config(e) == <<e.has_weight, e.weight, e.conf_func, e.device>>

GradsEmpty(e) ==
    e.user_grad = ZeroTable(Users) /\ e.item_grad = ZeroTable(Items)

\* N sequential step calls on the examples of single-example batches
RECURSIVE StepSeq(_, _, _)
StepSeq(e, data_loader, i) ==
    IF i > Len(data_loader) THEN e
    ELSE LET f == data_loader[i].features[1]
         IN StepSeq(StepBody(Begin(e), f[1], f[2], f[3],
                             data_loader[i].preferences[1]),
                    data_loader, i + 1)

SingleExamples(data_loader) ==
    \A j \in 1 .. Len(data_loader) :
        Len(data_loader[j].features) = 1 /\ Width(data_loader[j].features) = 3

ScoresDistinct(e, user) ==
    \A a, b \in Items : a # b => Score(e, user)[a] # Score(e, user)[b]

\* ---------------------------------------------------------------- claims

\* C1: a step call that returns applies exactly one optimizer update, on its
\* observation; a batch_fit call that returns applies one update per batch
\* per epoch, in the loader's order, epoch by epoch: epochs * batches
\* updates, none skipped, duplicated or reordered, whatever calls came before.
C1_UpdatesInCallOrder ==
    /\ (last.op = "step" /\ last.ok) =>
          /\ Updates(engine) = <<Batch(<<last.user>>, <<last.item>>,
                                       <<last.rating>>, <<last.preference>>)>>
          /\ engine.opt_steps = pre.opt_steps + 1
    /\ (last.op = "batch_fit" /\ last.ok) =>
          /\ engine.opt_steps =
                pre.opt_steps + last.epochs * Len(last.data_loader)
          /\ Updates(engine) =
                Repeat([j \in 1 .. Len(last.data_loader) |->
                           EngineBatch(last.data_loader[j])], last.epochs)

C1_Witness ==
    /\ last.op = "batch_fit" /\ last.ok
    /\ last.epochs = MaxEpochs /\ Len(last.data_loader) = MaxBatches
    /\ pre.opt_steps = 1
    /\ engine.opt_steps = 1 + MaxEpochs * MaxBatches

\* C2: a step call that returns has done, in this order, one forward pass,
\* one backward pass, exactly one optimizer update and one clearing of the
\* gradients, which are empty when it returns; no step call applies more
\* than one update.
C2_StepOneUpdate ==
    last.op = "step" =>
        /\ last.ok =>
              /\ Ops(engine) = <<"train", "forward", "objective", "backward",
                                 "optimizer.step", "zero_grad">>
              /\ engine.opt_steps = pre.opt_steps + 1
              /\ GradsEmpty(engine)
        /\ ~last.ok => engine.opt_steps = pre.opt_steps

C2_Witness ==
    /\ last.op = "step" /\ last.ok
    /\ Params(engine) # Params(pre)
    /\ GradsEmpty(engine)

\* C3: batch_fit with epochs = 1 over N single-example batches leaves the
\* parameters that N step calls on the same examples, in the same order,
\* leave when started from the same engine state.
C3_BatchEqualsSteps ==
    (last.op = "batch_fit" /\ last.ok /\ last.epochs = 1
        /\ SingleExamples(last.data_loader)) =>
        Params(engine) = Params(StepSeq(pre, last.data_loader, 1))

C3_Witness ==
    /\ last.op = "batch_fit" /\ last.ok /\ last.epochs = 1
    /\ SingleExamples(last.data_loader)
    /\ Len(last.data_loader) = MaxBatches
    /\ Params(engine) # Params(pre)

\* C4: for a known user and 1 <= k <= number of items, with all scores
\* distinct, predict returns the k best items, the highest score first.
C4_TopKDescending ==
    (last.op = "predict" /\ last.ok /\ last.k >= 1 /\ last.k <= NumItems
        /\ ScoresDistinct(pre, last.user)) =>
        /\ Len(last.ret) = last.k
        /\ \A a, b \in 1 .. Len(last.ret) : a < b =>
              Score(pre, last.user)[last.ret[a]] > Score(pre, last.user)[last.ret[b]]
        /\ \A i \in Items : (\A a \in 1 .. Len(last.ret) : last.ret[a] # i) =>
              \A a \in 1 .. Len(last.ret) :
                  Score(pre, last.user)[i] < Score(pre, last.user)[last.ret[a]]

\* C5: a batch_fit call that meets a batch whose features do not have
\* exactly 3 columns fails, and that batch causes no optimizer update.
C5_MalformedBatchRejected ==
    (last.op = "batch_fit" /\ last.epochs >= 1
        /\ \E j \in 1 .. Len(last.data_loader) :
              Width(last.data_loader[j].features) # 3) =>
        /\ ~last.ok
        /\ \A j \in 1 .. Len(engine.events) :
              engine.events[j].op = "optimizer.step" =>
                  Width(last.data_loader[engine.events[j].pos[2]].features) = 3

\* C6: a public call that fails leaves the parameters as they were before
\* the call started.
C6_AllOrNothing ==
    ~last.ok => Params(engine) = Params(pre)

\* C7: load(path) after save(path) restores the embedding tables to their
\* values at the time of that save, whatever training came between; save
\* changes no engine state, and load leaves the optimizer state, the
\* gradients, the objective, the confidence function and the device alone.
C7_SaveLoadRoundTrip ==
    /\ (last.op = "load" /\ last.ok) =>
          /\ saved[last.path] # <<>>
          /\ Params(engine) = saved[last.path][1]
    /\ last.op = "load" =>
          /\ <<engine.opt_steps, engine.user_grad, engine.item_grad>> =
                <<pre.opt_steps, pre.user_grad, pre.item_grad>>
          /\ Config(engine) = Config(pre)
          /\ engine.training = pre.training
    /\ last.op = "save" =>
          /\ Trained(engine) = Trained(pre)
          /\ Config(engine) = Config(pre)
          /\ engine.training = pre.training

C7_Witness ==
    /\ last.op = "load" /\ last.ok
    /\ Params(pre) # Params(engine)
    /\ pre.opt_steps > 0
    /\ engine.opt_steps = pre.opt_steps

\* C8: predict, whether it returns or fails, leaves both embedding tables,
\* the optimizer state, the gradients and the configuration as they were
\* and puts the model in inference mode; every later step or batch_fit call
\* puts the model in training mode before any forward pass.
C8_PredictFrame ==
    /\ last.op = "predict" =>
          /\ Trained(engine) = Trained(pre)
          /\ Config(engine) = Config(pre)
          /\ ~engine.training
    /\ last.op \in {"step", "batch_fit"} =>
          /\ engine.events[1].op = "train"
          /\ \A j \in 1 .. Len(engine.events) :
                engine.events[j].op = "forward" => engine.events[j].training

C8_Witness ==
    /\ last.op \in {"step", "batch_fit"} /\ last.ok
    /\ ~pre.training
    /\ engine.training
    /\ Params(engine) # Params(pre)

\* C9: at every invocation of the objective, a weight slot, if there is
\* one, holds the confidence of the ratings of the batch or observation
\* being processed; if there is none, none is created.
C9_FreshWeight ==
    /\ \A j \in 1 .. Len(engine.events) :
          engine.events[j].op = "objective" =>
              IF engine.events[j].has_weight
              THEN engine.events[j].weight =
                      ConfFunc(engine.conf_func, engine.events[j].cur.rtngs)
              ELSE engine.events[j].weight = <<>>
    /\ engine.has_weight = pre.has_weight
    /\ ~engine.has_weight => engine.weight = <<>>

C9_Witness ==
    /\ last.op \in {"step", "batch_fit"} /\ last.ok
    /\ engine.has_weight /\ engine.conf_func = "linear"
    /\ pre.weight # <<>>
    /\ \E j \in 1 .. Len(engine.events) :
          /\ engine.events[j].op = "objective"
          /\ engine.events[j].weight # pre.weight

\* C10: for a known user, predict returns min(k, number of items) distinct
\* item ids, for every k >= 0.
C10_ResultSize ==
    (last.op = "predict" /\ last.ok) =>
        /\ Len(last.ret) = Min(last.k, NumItems)
        /\ \A a, b \in 1 .. Len(last.ret) : a # b => last.ret[a] # last.ret[b]

====
